---------------------------- MODULE Spec2Model ----------------------------
(***************************************************************************)
(* Undo / redo history of the node material editor:                        *)
(* packages/tools/nodeEditor/src/historyStack.ts, class HistoryStack.      *)
(*                                                                         *)
(* The state is the object's fields (_history, _redoStack, _locked, the    *)
(* five observers), the node material it serializes and restores, and the  *)
(* position of the one thread of control inside undo() and redo(): both    *)
(* publish notifications while they run, and the callbacks registered in   *)
(* the constructor may be re-entered from there.                           *)
(***************************************************************************)
EXTENDS Naturals, Sequences, FiniteSets

VARIABLES
    _history,      \* Uint8Array[]: the past stack, oldest first
    _redoStack,    \* Uint8Array[]: the future stack, last undone at the end
    _locked,       \* the reentrancy guard
    nodeMaterial,  \* the state of the live document (globalState.nodeMaterial)
    observers,     \* the channels whose observer is still registered
    pc,            \* the line undo()/redo() executes next, "idle" outside them
    local,         \* undo's `previous` / redo's `current`: << >> or <<snapshot>>
    ret,           \* what the last public call that returned gave its caller
    events,        \* what the last undo()/redo() call did so far, in order
    last,          \* history variable: the last operation entered from outside
    reentered,     \* history variable: handlers re-entered during that operation
    pre,           \* history variable: the state the last undo()/redo() started from
    rt,            \* history variable: the state before an undo() that redo() follows
    log,           \* history variable: the operations since construction
    identities     \* whether this behaviour tells the Uint8Array objects apart

vars == << _history, _redoStack, _locked, nodeMaterial, observers, pc, local,
           ret, events, last, reentered, pre, rt, log, identities >>

-----------------------------------------------------------------------------
(* Bounds of the model *)

\* _maxHistoryLength is 64 in the code (historyStack.ts:27); the model runs
\* the same code with a small capacity.
maxHistoryLength == 3

\* In Spec and SpecClear undo() is not called once the future stack holds
\* this many snapshots (the code itself never bounds _redoStack).
MaxRedo == 2

\* The number of document states the editor moves the node material between
\* in Spec and SpecClear.
NumDocs == 2

Docs == 0 .. (NumDocs - 1)

\* The document states of SpecScenario: enough for maxHistoryLength + 1
\* captures of pairwise distinct states.
ScenarioDocs == 0 .. maxHistoryLength

-----------------------------------------------------------------------------
(* Channels *)

ChangeChannels ==
    { "onUpdateRequired", "onRebuildRequired", "onNodeMoved", "onNewNodeCreated" }

AllChannels == ChangeChannels \cup { "onClearUndoStack" }

-----------------------------------------------------------------------------
(* The codec: text is a sequence of characters, compressed data a sequence   *)
(* of bytes.                                                                 *)

RECURSIVE Ones(_)
Ones(n) == IF n = 0 THEN << >> ELSE <<1>> \o Ones(n - 1)

\* JSON.stringify(nodeMaterial.serialize()): the text of a document state.
\* Document state d is written as d marks and a terminator.
serialize(d) == Ones(d) \o <<0>>

RECURSIVE CountOnes(_)
CountOnes(text) ==
    IF text = << >> \/ Head(text) # 1 THEN 0 ELSE 1 + CountOnes(Tail(text))

\* nodeMaterial.parseSerializedObject(JSON.parse(text)): the document state
\* a text restores.
parseSerializedObject(text) == CountOnes(text)

RECURSIVE Runs(_)
Runs(text) ==
    IF text = << >> THEN << >>
    ELSE LET rest == Runs(Tail(text))
         IN  IF rest # << >> /\ rest[1][1] = Head(text)
             THEN << << Head(text), rest[1][2] + 1 >> >> \o Tail(rest)
             ELSE << << Head(text), 1 >> >> \o rest

RECURSIVE Flatten(_)
Flatten(runs) ==
    IF runs = << >> THEN << >> ELSE <<runs[1][1], runs[1][2]>> \o Flatten(Tail(runs))

\* fflate.zlibSync(fflate.strToU8(dataString)): bytes are (character, run
\* length) pairs.
_compress(dataString) == Flatten(Runs(dataString))

RECURSIVE Repeat(_, _)
Repeat(c, n) == IF n = 0 THEN << >> ELSE <<c>> \o Repeat(c, n - 1)

RECURSIVE Expand(_)
Expand(data) ==
    IF Len(data) < 2 THEN << >>
    ELSE Repeat(data[1], data[2]) \o Expand(SubSeq(data, 3, Len(data)))

\* fflate.strFromU8(fflate.decompressSync(data))
_decompress(data) == Expand(data)

-----------------------------------------------------------------------------
(* Snapshots: a Uint8Array is an object, so a snapshot is its bytes and its  *)
(* identity.                                                                 *)

Ids(stack) == { stack[i].id : i \in 1 .. Len(stack) }

\* The identity of a newly allocated Uint8Array: one no live array has (the
\* least such). A behaviour that does not tell the arrays apart gives all 0.
FreshId(held) ==
    IF identities
    THEN CHOOSE n \in 1 .. (Cardinality(held) + 1) :
            n \notin held /\ \A m \in 1 .. (n - 1) : m \in held
    ELSE 0

HeldIds == Ids(_history) \cup Ids(_redoStack) \cup Ids(local)

Texts(stack) == [ i \in 1 .. Len(stack) |-> _decompress(stack[i].data) ]

Top(stack) == stack[Len(stack)]

Front(stack) == SubSeq(stack, 1, Len(stack) - 1)

-----------------------------------------------------------------------------
(* _store(), lines 77-96: the past stack it leaves, from the past stack h,   *)
(* the guard and the document state d.                                       *)

\* Defective variants of _store(), for testing that the properties below
\* tell them from the code: without the comparison of line 85, without the
\* guard of line 78, and evicting with pop() instead of splice(0, 1).
_store_noDedup(h, lockedNow, d, id) ==
    IF lockedNow THEN h
    ELSE LET pushed == Append(h, [ id |-> id, data |-> _compress(serialize(d)) ])
         IN  IF Len(pushed) > maxHistoryLength THEN Tail(pushed) ELSE pushed

_store_noGuard(h, lockedNow, d, id) ==
    LET dataString == serialize(d)
    IN  IF Len(h) > 0 /\ _decompress(Top(h).data) = dataString
        THEN h
        ELSE LET pushed == Append(h, [ id |-> id, data |-> _compress(dataString) ])
             IN  IF Len(pushed) > maxHistoryLength THEN Tail(pushed) ELSE pushed

_store_evictsNewest(h, lockedNow, d, id) ==
    IF lockedNow THEN h
    ELSE LET dataString == serialize(d)
         IN  IF Len(h) > 0 /\ _decompress(Top(h).data) = dataString
             THEN h
             ELSE LET pushed == Append(h, [ id |-> id, data |-> _compress(dataString) ])
                  IN  IF Len(pushed) > maxHistoryLength THEN Front(pushed) ELSE pushed

\* Defective variant: the comparison of line 85 made with every entry of the
\* past stack instead of the top one.
_store_dedupAny(h, lockedNow, d, id) ==
    IF lockedNow THEN h
    ELSE LET dataString == serialize(d)
         IN  IF \E i \in 1 .. Len(h) : _decompress(h[i].data) = dataString
             THEN h
             ELSE LET pushed == Append(h, [ id |-> id, data |-> _compress(dataString) ])
                  IN  IF Len(pushed) > maxHistoryLength THEN Tail(pushed) ELSE pushed

_store(h, lockedNow, d, id) ==
    IF lockedNow THEN h
    ELSE LET dataString == serialize(d)
         IN  IF Len(h) > 0 /\ _decompress(Top(h).data) = dataString
             THEN h
             ELSE LET pushed == Append(h, [ id |-> id, data |-> _compress(dataString) ])
                  IN  IF Len(pushed) > maxHistoryLength THEN Tail(pushed) ELSE pushed


-----------------------------------------------------------------------------
(* History variables *)

PreNone == [ op |-> "none", text |-> << >>, history |-> << >>, redoStack |-> << >> ]

RtNone == [ phase |-> "none", text |-> << >>, history |-> << >>, redoStack |-> << >> ]

LogOff(capsOnly) ==
    [ on |-> FALSE, caps |-> << >>, undos |-> 0, redos |-> 0, capsOnly |-> capsOnly ]

\* The log follows a run of captures, then undos, then redos, from construction.
LogCapture(d) ==
    IF log.on /\ log.undos = 0 /\ log.redos = 0 /\ Len(log.caps) <= maxHistoryLength
    THEN [ log EXCEPT !.caps = Append(@, d) ]
    ELSE LogOff(log.capsOnly)

LogUndo ==
    IF log.on /\ log.redos = 0
    THEN [ log EXCEPT !.undos = @ + 1, !.capsOnly = FALSE ]
    ELSE LogOff(FALSE)

LogRedo ==
    IF log.on
    THEN [ log EXCEPT !.redos = @ + 1, !.capsOnly = FALSE ]
    ELSE LogOff(FALSE)

-----------------------------------------------------------------------------
(* Construction, lines 25-28 and 34-56: empty stacks, guard clear, the five  *)
(* observers registered. The node material is the one the editor was opened  *)
(* with.                                                                     *)

InitWith(docs) ==
    /\ _history = << >>
    /\ _redoStack = << >>
    /\ _locked = FALSE
    /\ nodeMaterial \in docs
    /\ observers = AllChannels
    /\ pc = "idle"
    /\ local = << >>
    /\ ret = "none"
    /\ events = << >>
    /\ last = "init"
    /\ reentered = { }
    /\ pre = PreNone
    /\ rt = RtNone
    /\ log = [ on |-> TRUE, caps |-> << >>, undos |-> 0, redos |-> 0, capsOnly |-> TRUE ]
    /\ identities = FALSE

Init == InitWith(Docs)

InitScenario == InitWith(ScenarioDocs)

\* The positions of undo()/redo() at which a published notification, or the
\* restore, may have called back into the observers of the constructor.
ReentrantPcs == { "undo112", "undo115", "undo117", "redo133", "redo136", "redo138" }

-----------------------------------------------------------------------------
(* The observers of the four change channels, lines 37-51: each calls        *)
(* _store(). The editor has moved the document to state d and notifies.      *)

\* Defective variant: a capture that discards the future stack.
OnChange_clearsRedo(ch, d) ==
    /\ pc = "idle"
    /\ ch \in ChangeChannels /\ ch \in observers
    /\ nodeMaterial' = d
    /\ _history' = _store(_history, _locked, d, FreshId(HeldIds))
    /\ _redoStack' = IF _locked THEN _redoStack ELSE << >>
    /\ last' = IF _locked THEN "ignored" ELSE "capture"
    /\ events' = << >>
    /\ reentered' = { }
    /\ pre' = PreNone
    /\ rt' = RtNone
    /\ log' = IF _locked THEN LogOff(FALSE) ELSE LogCapture(d)
    /\ UNCHANGED << identities, _locked, observers, pc, local, ret >>

OnChange(ch, d) ==
    /\ pc = "idle"
    /\ ch \in ChangeChannels /\ ch \in observers
    /\ nodeMaterial' = d
    /\ _history' = _store(_history, _locked, d, FreshId(HeldIds))
    /\ last' = IF _locked THEN "ignored" ELSE "capture"
    /\ events' = << >>
    /\ reentered' = { }
    /\ pre' = PreNone
    /\ rt' = RtNone
    /\ log' = IF _locked THEN LogOff(FALSE) ELSE LogCapture(d)
    /\ UNCHANGED << identities, _redoStack, _locked, observers, pc, local, ret >>

\* The same observers, called back while undo()/redo() runs.
ReenterChange(ch) ==
    /\ pc \in ReentrantPcs
    /\ ch \in ChangeChannels /\ ch \in observers
    /\ _history' = _store(_history, _locked, nodeMaterial, FreshId(HeldIds))
    /\ reentered' = reentered \cup { "_store" }
    /\ UNCHANGED << identities, _redoStack, _locked, nodeMaterial, observers, pc, local, ret,
                    events, last, pre, rt, log >>

\* A notification on a channel whose observer dispose() removed reaches nothing.
Undelivered(ch, d) ==
    /\ pc = "idle"
    /\ ch \in AllChannels /\ ch \notin observers
    /\ nodeMaterial' = d
    /\ last' = "undelivered"
    /\ events' = << >>
    /\ reentered' = { }
    /\ pre' = PreNone
    /\ rt' = RtNone
    /\ log' = LogOff(FALSE)
    /\ UNCHANGED << identities, _history, _redoStack, _locked, observers, pc, local, ret >>

-----------------------------------------------------------------------------
(* reset(), lines 61-65 *)

\* Defective variant: reset() without the _store() of line 64.
reset_noStore(lockedNow, d, id) == << >>

\* The past stack reset() leaves: emptied, then _store().
reset(lockedNow, d, id) == _store(<< >>, lockedNow, d, id)

\* reset() called by the host.
Reset ==
    /\ pc = "idle"
    /\ _history' = reset(_locked, nodeMaterial, FreshId(Ids(local)))
    /\ _redoStack' = << >>
    /\ ret' = "undefined"
    /\ last' = "reset"
    /\ events' = << >>
    /\ reentered' = { }
    /\ pre' = PreNone
    /\ rt' = RtNone
    /\ log' = LogOff(FALSE)
    /\ UNCHANGED << identities, _locked, nodeMaterial, observers, pc, local >>

\* The observer of the clear-history channel, lines 53-55: the editor has
\* replaced the document by d and notifies.
OnClearUndoStack(d) ==
    /\ pc = "idle"
    /\ "onClearUndoStack" \in observers
    /\ nodeMaterial' = d
    /\ _history' = reset(_locked, d, FreshId(Ids(local)))
    /\ _redoStack' = << >>
    /\ last' = "reset"
    /\ events' = << >>
    /\ reentered' = { }
    /\ pre' = PreNone
    /\ rt' = RtNone
    /\ log' = LogOff(FALSE)
    /\ UNCHANGED << identities, _locked, observers, pc, local, ret >>

\* The same observer, called back while undo()/redo() runs.
ReenterClear ==
    /\ pc \in ReentrantPcs
    /\ "onClearUndoStack" \in observers
    /\ _history' = reset(_locked, nodeMaterial, FreshId(Ids(local)))
    /\ _redoStack' = << >>
    /\ reentered' = reentered \cup { "reset" }
    /\ rt' = RtNone
    /\ log' = LogOff(FALSE)
    /\ UNCHANGED << identities, _locked, nodeMaterial, observers, pc, local, ret, events, last, pre >>

-----------------------------------------------------------------------------
(* undo(), lines 101-118 *)

\* Line 102: undo() returns at once.
undoReturns(h) == Len(h) < 2

\* Defective variant: the guard is set before the length is looked at.
UndoReturn_locks ==
    /\ pc = "idle"
    /\ undoReturns(_history)
    /\ _locked' = TRUE
    /\ ret' = "undefined"
    /\ last' = "undoReturn"
    /\ events' = << >>
    /\ reentered' = { }
    /\ pre' = PreNone
    /\ rt' = RtNone
    /\ log' = LogOff(FALSE)
    /\ UNCHANGED << identities, _history, _redoStack, nodeMaterial, observers, pc, local >>

\* Lines 102-104: nothing to undo. `return;` gives the caller undefined.
UndoReturn ==
    /\ pc = "idle"
    /\ undoReturns(_history)
    /\ ret' = "undefined"
    /\ last' = "undoReturn"
    /\ events' = << >>
    /\ reentered' = { }
    /\ pre' = PreNone
    /\ rt' = RtNone
    /\ log' = LogOff(FALSE)
    /\ UNCHANGED << identities, _history, _redoStack, _locked, nodeMaterial, observers, pc, local >>

\* Defective variant: line 109 pushes `previous`, not `current`.
UndoBegin_pushesPrevious ==
    /\ pc = "idle"
    /\ ~undoReturns(_history)
    /\ _locked' = TRUE
    /\ _history' = Front(_history)
    /\ local' = << Top(Front(_history)) >>
    /\ _redoStack' = Append(_redoStack, Top(Front(_history)))
    /\ pc' = "undo111"
    /\ events' = << "lock", "move" >>
    /\ last' = "undo"
    /\ reentered' = { }
    /\ pre' = [ op |-> "undo", text |-> serialize(nodeMaterial),
                history |-> _history, redoStack |-> _redoStack ]
    /\ rt' = RtNone
    /\ log' = LogUndo
    /\ UNCHANGED << identities, nodeMaterial, observers, ret >>

\* Defective variant: line 107 reads the top of the past stack without popping it.
UndoBegin_peeks ==
    /\ pc = "idle"
    /\ ~undoReturns(_history)
    /\ _locked' = TRUE
    /\ _history' = _history
    /\ local' = << Top(_history) >>
    /\ _redoStack' = Append(_redoStack, Top(_history))
    /\ pc' = "undo111"
    /\ events' = << "lock", "move" >>
    /\ last' = "undo"
    /\ reentered' = { }
    /\ pre' = [ op |-> "undo", text |-> serialize(nodeMaterial),
                history |-> _history, redoStack |-> _redoStack ]
    /\ rt' = RtNone
    /\ log' = LogUndo
    /\ UNCHANGED << identities, nodeMaterial, observers, ret >>

\* Defective variant: the document is restored from `current`, not `previous`.
UndoBegin_restoresCurrent ==
    /\ pc = "idle"
    /\ ~undoReturns(_history)
    /\ _locked' = TRUE
    /\ _history' = Front(_history)
    /\ local' = << Top(_history) >>
    /\ _redoStack' = Append(_redoStack, Top(_history))
    /\ pc' = "undo111"
    /\ events' = << "lock", "move" >>
    /\ last' = "undo"
    /\ reentered' = { }
    /\ pre' = [ op |-> "undo", text |-> serialize(nodeMaterial),
                history |-> _history, redoStack |-> _redoStack ]
    /\ rt' = RtNone
    /\ log' = LogUndo
    /\ UNCHANGED << identities, nodeMaterial, observers, ret >>

\* Lines 106-109: set the guard, pop `current`, read `previous`, push `current`
\* onto the future stack.
UndoBegin ==
    /\ pc = "idle"
    /\ ~undoReturns(_history)
    /\ _locked' = TRUE
    /\ _history' = Front(_history)
    /\ local' = << Top(Front(_history)) >>
    /\ _redoStack' = Append(_redoStack, Top(_history))
    /\ pc' = "undo111"
    /\ events' = << "lock", "move" >>
    /\ last' = "undo"
    /\ reentered' = { }
    /\ pre' = [ op |-> "undo", text |-> serialize(nodeMaterial),
                history |-> _history, redoStack |-> _redoStack ]
    /\ rt' = RtNone
    /\ log' = LogUndo
    /\ UNCHANGED << identities, nodeMaterial, observers, ret >>

\* Line 111: onSelectionChangedObservable.notifyObservers(null)
UndoSelectionChanged ==
    /\ pc = "undo111"
    /\ events' = Append(events, "selectionChanged")
    /\ pc' = "undo112"
    /\ UNCHANGED << identities, _history, _redoStack, _locked, nodeMaterial, observers, local,
                    ret, last, reentered, pre, rt, log >>

\* Lines 112-113: decompress `previous` and restore the document from it.
UndoRestore ==
    /\ pc = "undo112"
    /\ LET previousString == _decompress(local[1].data)
       IN  nodeMaterial' = parseSerializedObject(previousString)
    /\ events' = events \o << "decompress", "restore" >>
    /\ pc' = "undo115"
    /\ UNCHANGED << identities, _history, _redoStack, _locked, observers, local, ret, last,
                    reentered, pre, rt, log >>

\* Lines 112-113, the codec failing: _decompress (or JSON.parse, or the parse
\* before it changes the document) throws. undo() catches nothing, so the
\* exception leaves it from there, past lines 115 and 117.
UndoRestoreThrows ==
    /\ pc = "undo112"
    /\ events' = Append(events, "throw")
    /\ pc' = "idle"
    /\ local' = << >>
    /\ ret' = "threw"
    /\ log' = LogOff(FALSE)
    /\ UNCHANGED << identities, _history, _redoStack, _locked, nodeMaterial, observers,
                    last, reentered, pre, rt >>

\* Line 115: onResetRequiredObservable.notifyObservers(false)
UndoResetRequired ==
    /\ pc = "undo115"
    /\ events' = Append(events, "resetRequired")
    /\ pc' = "undo117"
    /\ UNCHANGED << identities, _history, _redoStack, _locked, nodeMaterial, observers, local,
                    ret, last, reentered, pre, rt, log >>

\* Lines 117-118: clear the guard and return (undefined).
UndoUnlock ==
    /\ pc = "undo117"
    /\ _locked' = FALSE
    /\ events' = Append(events, "unlock")
    /\ pc' = "idle"
    /\ local' = << >>
    /\ ret' = "undefined"
    /\ UNCHANGED << identities, _history, _redoStack, nodeMaterial, observers, last, reentered,
                    pre, rt, log >>

\* undo() called while the future stack is below the bound of the model.
UndoBounded == Len(_redoStack) < MaxRedo /\ UndoBegin

-----------------------------------------------------------------------------
(* redo(), lines 123-139 *)

\* Line 124: redo() returns at once.
redoReturns(r) == Len(r) < 1

\* Defective variant: the guard is set before the length is looked at.
RedoReturn_locks ==
    /\ pc = "idle"
    /\ redoReturns(_redoStack)
    /\ _locked' = TRUE
    /\ ret' = "undefined"
    /\ last' = "redoReturn"
    /\ events' = << >>
    /\ reentered' = { }
    /\ pre' = PreNone
    /\ rt' = RtNone
    /\ log' = LogOff(FALSE)
    /\ UNCHANGED << identities, _history, _redoStack, nodeMaterial, observers, pc, local >>

\* Lines 124-126: nothing to redo.
RedoReturn ==
    /\ pc = "idle"
    /\ redoReturns(_redoStack)
    /\ ret' = "undefined"
    /\ last' = "redoReturn"
    /\ events' = << >>
    /\ reentered' = { }
    /\ pre' = PreNone
    /\ rt' = RtNone
    /\ log' = LogOff(FALSE)
    /\ UNCHANGED << identities, _history, _redoStack, _locked, nodeMaterial, observers, pc, local >>

\* Defective variant: unshift() instead of push().
redoPush_front(h, current) == << current >> \o h

\* Line 130: the past stack after redo() pushed `current` onto it.
redoPush(h, current) == Append(h, current)

\* Lines 128-130: set the guard, pop `current` from the future stack, push it
\* onto the past stack.
RedoBegin ==
    /\ pc = "idle"
    /\ ~redoReturns(_redoStack)
    /\ _locked' = TRUE
    /\ _redoStack' = Front(_redoStack)
    /\ local' = << Top(_redoStack) >>
    /\ _history' = redoPush(_history, Top(_redoStack))
    /\ pc' = "redo132"
    /\ events' = << "lock", "move" >>
    /\ last' = "redo"
    /\ reentered' = { }
    /\ pre' = [ op |-> "redo", text |-> serialize(nodeMaterial),
                history |-> _history, redoStack |-> _redoStack ]
    /\ rt' = IF last = "undo" /\ ret = "undefined" /\ "reset" \notin reentered
             THEN [ phase |-> "redoing", text |-> pre.text,
                    history |-> pre.history, redoStack |-> pre.redoStack ]
             ELSE RtNone
    /\ log' = LogRedo
    /\ UNCHANGED << identities, nodeMaterial, observers, ret >>

\* Line 132: onSelectionChangedObservable.notifyObservers(null)
RedoSelectionChanged ==
    /\ pc = "redo132"
    /\ events' = Append(events, "selectionChanged")
    /\ pc' = "redo133"
    /\ UNCHANGED << identities, _history, _redoStack, _locked, nodeMaterial, observers, local,
                    ret, last, reentered, pre, rt, log >>

\* Defective variant: `current` is decompressed and never parsed.
RedoRestore_skipsParse ==
    /\ pc = "redo133"
    /\ events' = events \o << "decompress", "restore" >>
    /\ pc' = "redo136"
    /\ UNCHANGED << identities, _history, _redoStack, _locked, nodeMaterial, observers,
                    local, ret, last, reentered, pre, rt, log >>

\* Lines 133-134: decompress `current` and restore the document from it.
RedoRestore ==
    /\ pc = "redo133"
    /\ LET currentString == _decompress(local[1].data)
       IN  nodeMaterial' = parseSerializedObject(currentString)
    /\ events' = events \o << "decompress", "restore" >>
    /\ pc' = "redo136"
    /\ UNCHANGED << identities, _history, _redoStack, _locked, observers, local, ret, last,
                    reentered, pre, rt, log >>

\* Lines 133-134, the codec failing: the exception leaves redo() from there,
\* past lines 136 and 138.
RedoRestoreThrows ==
    /\ pc = "redo133"
    /\ events' = Append(events, "throw")
    /\ pc' = "idle"
    /\ local' = << >>
    /\ ret' = "threw"
    /\ rt' = RtNone
    /\ log' = LogOff(FALSE)
    /\ UNCHANGED << identities, _history, _redoStack, _locked, nodeMaterial, observers,
                    last, reentered, pre >>

\* Line 136: onResetRequiredObservable.notifyObservers(false)
RedoResetRequired ==
    /\ pc = "redo136"
    /\ events' = Append(events, "resetRequired")
    /\ pc' = "redo138"
    /\ UNCHANGED << identities, _history, _redoStack, _locked, nodeMaterial, observers, local,
                    ret, last, reentered, pre, rt, log >>

\* Lines 138-139: clear the guard and return (undefined).
RedoUnlock ==
    /\ pc = "redo138"
    /\ _locked' = FALSE
    /\ events' = Append(events, "unlock")
    /\ pc' = "idle"
    /\ local' = << >>
    /\ ret' = "undefined"
    /\ rt' = IF rt.phase = "redoing" THEN [ rt EXCEPT !.phase = "redone" ] ELSE RtNone
    /\ UNCHANGED << identities, _history, _redoStack, nodeMaterial, observers, last, reentered,
                    pre, log >>

-----------------------------------------------------------------------------
(* dispose(), lines 144-152 *)

\* Defective variant: line 147 left out, the observer of the node-moved channel
\* stays registered.
Dispose_keepsNodeMoved ==
    /\ pc = "idle"
    /\ observers' = observers \cap { "onNodeMoved" }
    /\ _history' = << >>
    /\ _redoStack' = << >>
    /\ ret' = "undefined"
    /\ last' = "dispose"
    /\ events' = << >>
    /\ reentered' = { }
    /\ pre' = PreNone
    /\ rt' = RtNone
    /\ log' = LogOff(FALSE)
    /\ UNCHANGED << identities, _locked, nodeMaterial, pc, local >>

Dispose ==
    /\ pc = "idle"
    /\ observers' = { }
    /\ _history' = << >>
    /\ _redoStack' = << >>
    /\ ret' = "undefined"
    /\ last' = "dispose"
    /\ events' = << >>
    /\ reentered' = { }
    /\ pre' = PreNone
    /\ rt' = RtNone
    /\ log' = LogOff(FALSE)
    /\ UNCHANGED << identities, _locked, nodeMaterial, pc, local >>

-----------------------------------------------------------------------------

Next ==
    \/ \E ch \in ChangeChannels, d \in Docs : OnChange(ch, d)
    \/ \E ch \in ChangeChannels : ReenterChange(ch)
    \/ \E ch \in AllChannels, d \in Docs : Undelivered(ch, d)
    \/ Reset
    \/ \E d \in Docs : OnClearUndoStack(d)
    \/ UndoReturn
    \/ UndoBounded
    \/ UndoSelectionChanged
    \/ UndoRestore
    \/ UndoResetRequired
    \/ UndoUnlock
    \/ RedoReturn
    \/ RedoBegin
    \/ RedoSelectionChanged
    \/ RedoRestore
    \/ RedoResetRequired
    \/ RedoUnlock
    \/ Dispose

\* The environment the design describes: the restore and the notifications
\* of undo()/redo() call back the observers of the change channels.
Spec == Init /\ [][Next]_vars

\* The same, and observers that also notify the clear-history channel while
\* undo()/redo() runs.
NextClear ==
    \/ Next
    \/ ReenterClear

SpecClear == Init /\ [][NextClear]_vars

\* The runs the scenarios are about: from construction, captures of a state
\* other than the one captured just before, then undo() calls, then redo()
\* calls, with change notifications called back during the restores.
ScenarioCapture ==
    \E ch \in ChangeChannels, d \in ScenarioDocs :
        /\ IF log.caps = << >> THEN TRUE ELSE d # log.caps[Len(log.caps)]
        /\ OnChange(ch, d)
        /\ log'.on

ScenarioUndo == UndoBegin /\ log'.on

ScenarioRedo == RedoBegin /\ log'.on

NextScenario ==
    \/ ScenarioCapture
    \/ \E ch \in ChangeChannels : ReenterChange(ch)
    \/ ScenarioUndo
    \/ UndoSelectionChanged
    \/ UndoRestore
    \/ UndoResetRequired
    \/ UndoUnlock
    \/ ScenarioRedo
    \/ RedoSelectionChanged
    \/ RedoRestore
    \/ RedoResetRequired
    \/ RedoUnlock

SpecScenario == InitScenario /\ [][NextScenario]_vars

\* Spec, and a codec that may fail in undo()/redo().
NextFail ==
    \/ Next
    \/ UndoRestoreThrows
    \/ RedoRestoreThrows

SpecFail == Init /\ [][NextFail]_vars

\* Spec with undo() called until the future stack is longer than the past
\* stack may be.
UndoDeep == Len(_redoStack) <= maxHistoryLength /\ UndoBegin

NextDeep ==
    \/ Next
    \/ UndoDeep

SpecDeep == Init /\ [][NextDeep]_vars

\* Spec with the Uint8Array objects told apart.
IdentityDocs == { 0, 1 }

InitIdentities ==
    /\ _history = << >>
    /\ _redoStack = << >>
    /\ _locked = FALSE
    /\ nodeMaterial \in IdentityDocs
    /\ observers = AllChannels
    /\ pc = "idle"
    /\ local = << >>
    /\ ret = "none"
    /\ events = << >>
    /\ last = "init"
    /\ reentered = { }
    /\ pre = PreNone
    /\ rt = RtNone
    /\ log = LogOff(FALSE)
    /\ identities = TRUE

UndoHeld == Len(_history) + Len(_redoStack) <= maxHistoryLength /\ UndoBegin

NextIdentities ==
    \/ \E ch \in ChangeChannels, d \in IdentityDocs : OnChange(ch, d)
    \/ UndoHeld
    \/ UndoSelectionChanged
    \/ UndoRestore
    \/ UndoResetRequired
    \/ UndoUnlock
    \/ RedoBegin
    \/ RedoSelectionChanged
    \/ RedoRestore
    \/ RedoResetRequired
    \/ RedoUnlock

SpecIdentities == InitIdentities /\ [][NextIdentities]_vars

-----------------------------------------------------------------------------
(* Properties *)

Range(f) == { f[i] : i \in DOMAIN f }

TopText(stack) == _decompress(Top(stack).data)

Distinct(seq) == \A i, j \in 1 .. Len(seq) : i # j => seq[i] # seq[j]

SerializeAll(docs) == [ i \in 1 .. Len(docs) |-> serialize(docs[i]) ]

\* C1: once an operation has completed, the past stack holds at most
\* maxHistoryLength snapshots.
C1_PastBounded == pc = "idle" => Len(_history) <= maxHistoryLength

\* C2: undo() followed at once by redo() leaves the document with the text it
\* had before the undo, and both stacks as they were before the undo.
C2_RoundTrip ==
    rt.phase = "redone" =>
        /\ serialize(nodeMaterial) = rt.text
        /\ _history = rt.history
        /\ _redoStack = rt.redoStack

C2_Witness ==
    /\ rt.phase = "redone"
    /\ pc = "idle"
    /\ Len(rt.history) >= 2
    /\ rt.redoStack # << >>

\* C3: right after a capture, an undo() that ran or a redo() that ran, the top
\* of the past stack decompresses to the text of the document.
C3_TopIsDocument ==
    (pc = "idle" /\ last \in { "capture", "undo", "redo" }) =>
        /\ _history # << >>
        /\ TopText(_history) = serialize(nodeMaterial)

C3_Witness ==
    /\ pc = "idle"
    /\ last = "undo"
    /\ "_store" \in reentered
    /\ TopText(_history) = serialize(nodeMaterial)
    /\ TopText(_redoStack) # serialize(nodeMaterial)

\* A change notification handled by _store() with the guard clear.
CaptureStep == \E ch \in ChangeChannels, d \in Docs : OnChange(ch, d) /\ ~_locked

NoAdjacentEqual(stack) ==
    \A i \in 1 .. (Len(stack) - 1) :
        _decompress(stack[i].data) # _decompress(stack[i + 1].data)

\* C4: a capture of the text the top of the past stack decompresses to changes
\* neither stack; and after captures alone no two adjacent entries of the past
\* stack decompress to the same text.
C4_DedupNoOp ==
    /\ [][ ( /\ CaptureStep
             /\ _history # << >>
             /\ TopText(_history) = serialize(nodeMaterial') )
           => (_history' = _history /\ _redoStack' = _redoStack) ]_vars
    /\ [](log.capsOnly => NoAdjacentEqual(_history))

C4_Witness ==
    /\ last = "capture"
    /\ log.on
    /\ Len(log.caps) >= 3
    /\ log.caps[Len(log.caps)] = log.caps[Len(log.caps) - 1]
    /\ Len(_history) = 2

\* undo() is called: one of its two ways through line 102.
UndoCall == UndoReturn \/ UndoBegin

\* The call left the stacks, the document and the guard alone and published
\* no notification.
NoEffect ==
    /\ _history' = _history
    /\ _redoStack' = _redoStack
    /\ nodeMaterial' = nodeMaterial
    /\ _locked' = _locked
    /\ events' = << >>

\* C5 as stated: undo() with fewer than two snapshots in the past stack
\* returns false and changes nothing.
C5_UndoReturnsFalse ==
    [][ (UndoCall /\ Len(_history) < 2) => (ret' = "false" /\ NoEffect) ]_vars

\* C5, amended: undo() with fewer than two snapshots in the past stack returns
\* undefined, as every call of undo() does, and changes nothing.
C5_UndoRefused ==
    [][ (UndoCall /\ Len(_history) < 2) => (ret' = "undefined" /\ NoEffect) ]_vars

C5_Witness ==
    /\ last = "undoReturn"
    /\ Len(_history) = 1
    /\ _redoStack # << >>
    /\ ret = "undefined"

\* redo() is called: one of its two ways through line 124.
RedoCall == RedoReturn \/ RedoBegin

\* C6 as stated: redo() with an empty future stack returns false and changes
\* nothing.
C6_RedoReturnsFalse ==
    [][ (RedoCall /\ _redoStack = << >>) => (ret' = "false" /\ NoEffect) ]_vars

\* C6, amended: redo() with an empty future stack returns undefined, as every
\* call of redo() does, and changes nothing.
C6_RedoRefused ==
    [][ (RedoCall /\ _redoStack = << >>) => (ret' = "undefined" /\ NoEffect) ]_vars

C6_Witness ==
    /\ last = "redoReturn"
    /\ _redoStack = << >>
    /\ Len(_history) >= 2
    /\ ret = "undefined"

\* C7: whatever change notifications are handled while undo() or redo() runs,
\* the past stack is the one the call started from less its top (undo), or
\* with the top of the future stack pushed (redo).
C7_GuardHolds ==
    "reset" \notin reentered =>
        /\ last = "undo" => _history = Front(pre.history)
        /\ last = "redo" => _history = Append(pre.history, Top(pre.redoStack))

C7_Witness ==
    /\ pc = "idle"
    /\ last = "redo"
    /\ "_store" \in reentered
    /\ _history = Append(pre.history, Top(pre.redoStack))

\* reset() runs: called by the host, or by the observer of the clear-history
\* channel, outside or inside undo()/redo().
ResetCall == Reset \/ (\E d \in Docs : OnClearUndoStack(d)) \/ ReenterClear

\* C8: when reset() completes the future stack is empty and the past stack
\* holds one snapshot, of the document as it is.
C8_ResetBaseline ==
    [][ ResetCall =>
            /\ _redoStack' = << >>
            /\ Len(_history') = 1
            /\ TopText(_history') = serialize(nodeMaterial') ]_vars

\* C9: from construction, captures of A, B, C, then undo, undo, redo give the
\* stacks and the document of the scenario, step by step.
C9_Scenario ==
    \A a, b, c \in ScenarioDocs :
        (Distinct(<< a, b, c >>) /\ log.on /\ pc = "idle") =>
            /\ (log.caps = << a >> /\ log.undos = 0 /\ log.redos = 0) =>
                    /\ Texts(_history) = SerializeAll(<< a >>)
                    /\ _redoStack = << >>
            /\ (log.caps = << a, b >> /\ log.undos = 0 /\ log.redos = 0) =>
                    /\ Texts(_history) = SerializeAll(<< a, b >>)
                    /\ _redoStack = << >>
            /\ (log.caps = << a, b, c >> /\ log.undos = 0 /\ log.redos = 0) =>
                    /\ Texts(_history) = SerializeAll(<< a, b, c >>)
                    /\ _redoStack = << >>
            /\ (log.caps = << a, b, c >> /\ log.undos = 1 /\ log.redos = 0) =>
                    /\ nodeMaterial = b
                    /\ Texts(_history) = SerializeAll(<< a, b >>)
                    /\ Texts(_redoStack) = SerializeAll(<< c >>)
            /\ (log.caps = << a, b, c >> /\ log.undos = 2 /\ log.redos = 0) =>
                    /\ nodeMaterial = a
                    /\ Texts(_history) = SerializeAll(<< a >>)
                    /\ Texts(_redoStack) = SerializeAll(<< c, b >>)
            /\ (log.caps = << a, b, c >> /\ log.undos = 2 /\ log.redos = 1) =>
                    /\ nodeMaterial = b
                    /\ Texts(_history) = SerializeAll(<< a, b >>)
                    /\ Texts(_redoStack) = SerializeAll(<< c >>)

C9_Witness ==
    /\ log.on
    /\ pc = "idle"
    /\ log.caps = << 0, 1, 2 >>
    /\ log.undos = 2
    /\ log.redos = 1
    /\ nodeMaterial = 1

\* C10: from construction, maxHistoryLength + 1 captures of pairwise distinct
\* states leave the last maxHistoryLength of them in the past stack, in order;
\* the first is in neither stack, and no run of undo() calls restores it: each
\* undo() shortens the past stack by one, down to one snapshot.
C10_Eviction ==
    ( /\ log.on
      /\ pc = "idle"
      /\ Len(log.caps) = maxHistoryLength + 1
      /\ Distinct(log.caps)
      /\ log.redos = 0 ) =>
        /\ log.undos = 0 => Texts(_history) = SerializeAll(Tail(log.caps))
        /\ Len(_history) = maxHistoryLength - log.undos
        /\ serialize(log.caps[1]) \notin Range(Texts(_history)) \cup Range(Texts(_redoStack))
        /\ nodeMaterial # log.caps[1]
        /\ log.undos = maxHistoryLength - 1 => undoReturns(_history)

C10_Witness ==
    /\ log.on
    /\ pc = "idle"
    /\ Len(log.caps) = maxHistoryLength + 1
    /\ Distinct(log.caps)
    /\ log.redos = 0
    /\ log.undos = maxHistoryLength - 1

AdjacentDiffer(docs) == \A i \in 1 .. (Len(docs) - 1) : docs[i] # docs[i + 1]

\* C11: from construction, N captures, N at most maxHistoryLength, each of a
\* text other than the one captured just before, leave N snapshots in the past
\* stack: the captured texts, in the order captured, the top one decompressing
\* to the last.
C11_CapturesInOrder ==
    ( /\ log.on
      /\ pc = "idle"
      /\ log.undos = 0
      /\ log.redos = 0
      /\ Len(log.caps) \in 1 .. maxHistoryLength
      /\ AdjacentDiffer(log.caps) ) =>
        /\ Len(_history) = Len(log.caps)
        /\ Texts(_history) = SerializeAll(log.caps)
        /\ TopText(_history) = serialize(log.caps[Len(log.caps)])

\* Three captures, the third of the text of the first.
C11_Witness ==
    /\ log.on
    /\ pc = "idle"
    /\ log.undos = 0
    /\ log.redos = 0
    /\ log.caps = << 1, 0, 1 >>
    /\ Len(_history) = 3

\* A change notification delivered, between operations or inside undo()/redo().
CaptureCall ==
    \E ch \in ChangeChannels : (\E d \in Docs : OnChange(ch, d)) \/ ReenterChange(ch)

\* C12: no capture changes the future stack, whether it stores, finds the text
\* on top, evicts, or is ignored under the guard; the future stack grows only
\* in undo(), by the snapshot popped from the past stack, and shrinks only in
\* redo(), reset() and dispose().
C12_FutureOnlyByUndoRedo ==
    [][ /\ CaptureCall => _redoStack' = _redoStack
        /\ Len(_redoStack') > Len(_redoStack) =>
                (UndoBegin /\ _redoStack' = Append(_redoStack, Top(_history)))
        /\ Len(_redoStack') < Len(_redoStack) => (RedoBegin \/ ResetCall \/ Dispose)
        /\ Len(_redoStack') = Len(_redoStack) => _redoStack' = _redoStack ]_vars

\* A capture has stored with the past stack full and the future stack not empty.
C12_Witness ==
    /\ pc = "idle"
    /\ last = "capture"
    /\ Len(_history) = maxHistoryLength
    /\ TopText(_history) = serialize(nodeMaterial)
    /\ Len(_redoStack) = MaxRedo

\* A notification on one of the five channels, between operations.
NotifyStep ==
    \E ch \in AllChannels, d \in Docs :
        OnChange(ch, d) \/ Undelivered(ch, d) \/ OnClearUndoStack(d)

\* C13: dispose() leaves both stacks empty and no observer on any of the five
\* channels; a notification on any of them after it reaches no observer and
\* leaves the stacks as they are, empty; dispose() called again returns
\* normally and leaves the same state.
C13_Disposed ==
    /\ [](last = "dispose" =>
            (_history = << >> /\ _redoStack = << >> /\ observers = { }))
    /\ [][ (last = "dispose" /\ NotifyStep) =>
                (last' = "undelivered" /\ _history' = << >> /\ _redoStack' = << >>) ]_vars
    /\ [][ (observers = { } /\ NotifyStep) =>
                UNCHANGED << _history, _redoStack, observers >> ]_vars
    /\ [][ (last = "dispose" /\ Dispose) =>
                (ret' = "undefined" /\ UNCHANGED << _history, _redoStack, observers >>) ]_vars

\* A notification has followed dispose().
C13_Witness ==
    /\ last = "undelivered"
    /\ observers = { }
    /\ _history = << >>
    /\ _redoStack = << >>

\* The codec failed in undo() or redo(), before the document was changed.
CodecThrows == UndoRestoreThrows \/ RedoRestoreThrows

\* C14: when decompressing or parsing the target snapshot fails in undo() or
\* redo() before the document is changed, the error reaches the caller and the
\* document, the past stack and the future stack are as they were before the
\* call.
C14_FailureChangesNothing ==
    [][ CodecThrows =>
            /\ ret' = "threw"
            /\ serialize(nodeMaterial') = pre.text
            /\ _history' = pre.history
            /\ _redoStack' = pre.redoStack ]_vars

\* C15: the guard is set only while undo() or redo() runs: between operations,
\* also after an operation the codec's exception ended, it is clear, and the
\* next change notification is captured.
C15_GuardClearBetweenOperations ==
    /\ pc = "idle" => ~_locked
    /\ last = "ignored" => pc # "idle"

IsPrefix(s, t) == Len(s) <= Len(t) /\ \A i \in 1 .. Len(s) : s[i] = t[i]

\* C16: every undo() and redo() that passes its length check sets the guard,
\* moves the snapshot, decompresses the target, publishes "selection cleared",
\* restores the document, publishes "reset occurred" and clears the guard, in
\* this order: the target is decompressed before "selection cleared" is
\* published, the selection is published before the document changes, and the
\* reset after it, under the guard.
C16_OrderOfEffects ==
    last \in { "undo", "redo" } =>
        /\ IsPrefix(events, << "lock", "move", "decompress", "selectionChanged",
                               "restore", "resetRequired", "unlock" >>)
        /\ "unlock" \notin Range(events) => _locked
        /\ "restore" \notin Range(events) => serialize(nodeMaterial) = pre.text

\* The identities of the snapshots the two stacks hold, position by position.
HeldSeq == [ i \in 1 .. (Len(_history) + Len(_redoStack)) |->
                IF i <= Len(_history) THEN _history[i].id
                ELSE _redoStack[i - Len(_history)].id ]

\* C17: every stored snapshot is at one position of one stack: in no state is
\* one snapshot in both stacks or twice in one; undo() and redo() move the
\* snapshot itself, they make no copy.
C17_OneHolder ==
    /\ [](identities => Distinct(HeldSeq))
    /\ [][ (identities /\ (UndoBegin \/ RedoBegin)) =>
                Range(HeldSeq') = Range(HeldSeq) ]_vars

\* redo() has moved a snapshot back while the future stack holds another.
C17_Witness ==
    /\ identities
    /\ pc = "idle"
    /\ last = "redo"
    /\ Len(_history) >= 2
    /\ _redoStack # << >>

\* C18: the future stack never holds more than maxHistoryLength snapshots,
\* whatever captures, undos, redos and resets came before, captures that
\* refill the past stack between undos included.
C18_FutureBounded == Len(_redoStack) <= maxHistoryLength

\* C19: once a capture or a reset() has completed with the guard clear, the
\* past stack is not empty again before dispose(): captures, undos, redos and
\* resets with the guard clear all leave at least one snapshot in it.
C19_PastNeverEmptyAgain ==
    /\ [][ (~_locked /\ (CaptureStep \/ Reset \/ \E d \in Docs : OnClearUndoStack(d))) =>
                _history' # << >> ]_vars
    /\ [][ (_history # << >> /\ ~Dispose) => _history' # << >> ]_vars

\* undo() has taken the past stack down to one snapshot, where it refuses.
C19_Witness ==
    /\ pc = "idle"
    /\ last = "undo"
    /\ Len(_history) = 1
    /\ Len(_redoStack) = MaxRedo
    /\ undoReturns(_history)

Reverse(s) == [ i \in 1 .. Len(s) |-> s[Len(s) + 1 - i] ]

\* The past stack followed by the future stack read from its end to its start.
Timeline(h, r) == h \o Reverse(r)

\* C20: an undo() that runs makes the past stack one shorter and the future
\* stack one longer, a redo() that runs the reverse; the past stack followed
\* by the future stack read from end to start is the same sequence after as
\* before.
C20_Conservation ==
    /\ last = "undo" =>
            /\ Len(_history) = Len(pre.history) - 1
            /\ Len(_redoStack) = Len(pre.redoStack) + 1
            /\ Timeline(_history, _redoStack) = Timeline(pre.history, pre.redoStack)
    /\ last = "redo" =>
            /\ Len(_history) = Len(pre.history) + 1
            /\ Len(_redoStack) = Len(pre.redoStack) - 1
            /\ Timeline(_history, _redoStack) = Timeline(pre.history, pre.redoStack)

\* redo() has completed from a future stack of MaxRedo snapshots.
C20_Witness ==
    /\ pc = "idle"
    /\ last = "redo"
    /\ Len(pre.redoStack) = MaxRedo
    /\ Len(_redoStack) = MaxRedo - 1
    /\ Len(_history) = Len(pre.history) + 1

=============================================================================
